---------------------------- MODULE Spec2Model ----------------------------
(***************************************************************************)
(* MonMon dashboard: the /api/energy-data handler, its five-minute cache   *)
(* and the quote pipeline behind it (src/unnamed/part_000, the deployed    *)
(* server; src/server.js lines 104-256 is the same handler with a fourth   *)
(* symbol).                                                                *)
(*                                                                         *)
(* Units.  Quote prices, changes and previous closes are in cents;         *)
(* changePercent is in hundredths of a percent; spreads are in             *)
(* thousandths of a cent (so that price * 0.008 is exact); instants are    *)
(* milliseconds.  JavaScript's undefined, NaN and the infinities are the   *)
(* four values below, which no price reaches.                              *)
(***************************************************************************)
EXTENDS Integers, Sequences, FiniteSets, TLC

VARIABLES
    cachedData,  \* the cached Snapshot, or Null
    lastFetch,   \* the instant stored with it
    clock,       \* what Date.now() reads
    ticks,       \* how often time has advanced
    req,         \* each request's handler: where it stands and its locals
    sent,        \* the response the last step wrote, if it wrote one
    everStored,  \* whether a Snapshot has ever been stored
    calc         \* a calculator applied on its own: its arguments and result

vars == <<cachedData, lastFetch, clock, ticks, req, sent, everStored, calc>>

-----------------------------------------------------------------------------
(* Bounds of the model *)

MaxReq == 2
MaxTicks == 1

(* Program constants *)

CACHE_DURATION == 5 * 60 * 1000
TIMEOUT_MS == 10000
GALLONS_PER_BARREL == 42

(* JavaScript values that are not numbers *)

Undefined == 0 - 1000001
NaN == 0 - 1000002
Infinity == 0 - 1000003
NegInfinity == 0 - 1000004

IsNum(x) == x \notin {Undefined, NaN, Infinity, NegInfinity}

\* !x of JavaScript for a number or undefined
Falsy(x) == x \in {Undefined, NaN, 0}

Null == [null |-> TRUE]

Req == 1..MaxReq

\* Object.entries(symbols): the keys in insertion order, and their tickers
Keys == <<"wti", "brent", "rbob">>
symbols == [wti |-> "CL=F", brent |-> "BZ=F", rbob |-> "RB=F"]
KeySet == {Keys[i] : i \in 1..Len(Keys)}

-----------------------------------------------------------------------------
(* Arithmetic of JavaScript numbers on the values above *)

JsSub(a, b) ==
    IF IsNum(a) /\ IsNum(b) THEN a - b
    ELSE IF a \in {Undefined, NaN} \/ b \in {Undefined, NaN} THEN NaN
    ELSE IF a = b THEN NaN
    ELSE IF a \in {Infinity, NegInfinity} THEN a
    ELSE IF b = Infinity THEN NegInfinity ELSE Infinity

\* (change / previousClose) * 100, in hundredths of a percent
JsPercent(change, previousClose) ==
    IF ~IsNum(change) \/ ~IsNum(previousClose) THEN NaN
    ELSE IF previousClose = 0
         THEN IF change = 0 THEN NaN
              ELSE IF change > 0 THEN Infinity ELSE NegInfinity
    ELSE (change * 10000) \div previousClose

Quote(p, c, cp, pc) ==
    [price |-> p, change |-> c, changePercent |-> cp, previousClose |-> pc]

-----------------------------------------------------------------------------
(* The upstream: what one axios.get can end with *)

NetworkError == [kind |-> "error"]
Timeout == [kind |-> "timeout"]
\* a body without chart.result[0]
Invalid == [kind |-> "body", hasResult |-> FALSE, hasMeta |-> FALSE,
            regularMarketPrice |-> Undefined, previousClose |-> Undefined,
            closes |-> <<>>]

Body(rmp, prev, cl) ==
    [kind |-> "body", hasResult |-> TRUE, hasMeta |-> TRUE,
     regularMarketPrice |-> rmp, previousClose |-> prev, closes |-> cl]

\* Bodies the provider answers with: with the meta fields, or (brent) with
\* a meta that lacks them, so that the close series is used, or (rbob) with
\* a market price of 0 and no close series
LiveBodies(key) ==
    CASE key = "wti"   -> {Body(6700, 6650, <<6600, 6650, 6700>>)}
      [] key = "brent" -> {Body(Undefined, Undefined, <<6900, 7010>>)}
      [] key = "rbob"  -> {Body(231, 228, <<226, 228, 231>>),
                           Body(0, 228, <<>>)}

Responses(key) == {NetworkError, Timeout, Invalid} \cup LiveBodies(key)

At(s, i) == IF i >= 1 /\ i <= Len(s) THEN s[i] ELSE Undefined

\* the percentage taken of the latest price instead of the previous close
fetchYahooPrice_PercentOfPrice(resp) ==
    IF resp.kind # "body" THEN [threw |-> TRUE, value |-> Null]
    ELSE IF ~resp.hasResult THEN [threw |-> TRUE, value |-> Null]
    ELSE IF ~resp.hasMeta THEN [threw |-> TRUE, value |-> Null]
    ELSE
      LET closes == resp.closes
          latestPrice == IF Falsy(resp.regularMarketPrice)
                         THEN At(closes, Len(closes))
                         ELSE resp.regularMarketPrice
          previousClose == IF Falsy(resp.previousClose)
                           THEN At(closes, Len(closes) - 1)
                           ELSE resp.previousClose
          change == JsSub(latestPrice, previousClose)
      IN [threw |-> FALSE,
          value |-> Quote(latestPrice, change,
                          JsPercent(change, latestPrice), previousClose)]

fetchYahooPrice(resp) ==
    IF resp.kind # "body" THEN [threw |-> TRUE, value |-> Null]
    ELSE IF ~resp.hasResult THEN [threw |-> TRUE, value |-> Null]
    ELSE IF ~resp.hasMeta THEN [threw |-> TRUE, value |-> Null]
    ELSE
      LET closes == resp.closes
          latestPrice == IF Falsy(resp.regularMarketPrice)
                         THEN At(closes, Len(closes))
                         ELSE resp.regularMarketPrice
          previousClose == IF Falsy(resp.previousClose)
                           THEN At(closes, Len(closes) - 1)
                           ELSE resp.previousClose
          change == JsSub(latestPrice, previousClose)
      IN [threw |-> FALSE,
          value |-> Quote(latestPrice, change,
                          JsPercent(change, previousClose), previousClose)]

getMockData_Missing(commodity) == Quote(0, 0, 0, 0)

getMockData(commodity) ==
    CASE commodity = "wti"   -> Quote(6650, 80, 122, 6570)
      [] commodity = "brent" -> Quote(7180, 90, 127, 7090)
      [] commodity = "rbob"  -> Quote(228, 4, 179, 224)
      [] OTHER               -> Quote(0, 0, 0, 0)

\* One turn of the loop of fetchEnergyData: try fetchYahooPrice, catch and
\* use the mock quote.  threw says whether the turn lets an error out.
FetchOne_NoCatch(key, resp) == fetchYahooPrice(resp)

FetchOne(key, resp) ==
    LET r == fetchYahooPrice(resp)
    IN IF r.threw THEN [threw |-> FALSE, value |-> getMockData(key)] ELSE r

-----------------------------------------------------------------------------
(* Derived products and spreads *)

estimateFuelOil05(brentPrice) ==
    LET b == IF Falsy(brentPrice) THEN 7180 ELSE brentPrice
        price == IF IsNum(b) THEN b + 400 ELSE b
    IN Quote(price, 50, 67, JsSub(price, 50))

estimateFuelOil380(brentPrice) ==
    LET b == IF Falsy(brentPrice) THEN 7180 ELSE brentPrice
        price == IF IsNum(b) THEN b - 1000 ELSE b
    IN Quote(price, 0 - 30, 0 - 48, JsSub(price, 0 - 30))

estimateGas92(rbobPrice) ==
    LET b == IF Falsy(rbobPrice) THEN 228 ELSE rbobPrice
        price == IF IsNum(b) THEN b - 2 ELSE b
    IN Quote(price, 3, 135, JsSub(price, 3))

\* every product price taken as $/gallon, as calculateCrack321 does
calculateCrack_AlwaysGallons(crudePrice, productPrice) ==
    IF Falsy(crudePrice) \/ Falsy(productPrice) THEN 0
    ELSE (productPrice * GALLONS_PER_BARREL - crudePrice) * 1000

\* in thousandths of a cent
calculateCrack(crudePrice, productPrice) ==
    IF Falsy(crudePrice) \/ Falsy(productPrice) THEN 0
    ELSE IF ~IsNum(crudePrice) \/ ~IsNum(productPrice) THEN NaN
    ELSE LET productBarrel == IF productPrice < 1000
                              THEN productPrice * GALLONS_PER_BARREL
                              ELSE productPrice
         IN (productBarrel - crudePrice) * 1000

\* The crack of server.js, which takes both products as $/gallon.  In
\* thirds of a cent (the division by 3 is then exact).
calculateCrack321(wti, rbob, ho) ==
    IF Falsy(wti) \/ Falsy(rbob) \/ Falsy(ho) THEN 0
    ELSE LET rbobBarrel == rbob * GALLONS_PER_BARREL
             hoBarrel == ho * GALLONS_PER_BARREL
         IN (2 * rbobBarrel + hoBarrel) - 3 * wti

OrZero(x) == IF Falsy(x) THEN 0 ELSE x

Scaled(x, k) == IF IsNum(x) THEN x * k ELSE x

Spreads(data) ==
    [brent_wti   |-> Scaled(JsSub(OrZero(data.brent.price),
                                  OrZero(data.wti.price)), 1000),
     wti_m1m2    |-> IF Falsy(data.wti.price) THEN 50000
                     ELSE Scaled(data.wti.price, 8),
     wti_m1m6    |-> IF Falsy(data.wti.price) THEN 230000
                     ELSE Scaled(data.wti.price, 35),
     rbob_m1m2   |-> IF Falsy(data.rbob.price) THEN 15000
                     ELSE Scaled(data.rbob.price, 10),
     crack_92    |-> calculateCrack(data.brent.price,
                                    estimateGas92(data.rbob.price).price),
     crack_fo05  |-> calculateCrack(data.brent.price,
                                    estimateFuelOil05(data.brent.price).price),
     crack_fo380 |-> calculateCrack(data.brent.price,
                                    estimateFuelOil380(data.brent.price).price)]

\* The tail of fetchEnergyData, once every key of data is set.  timestamp
\* is the instant new Date() reads (toISOString is one-to-one on it).
BuildSnapshot(data, t) ==
    [timestamp |-> t,
     wti       |-> data.wti,
     brent     |-> data.brent,
     rbob      |-> data.rbob,
     gas92     |-> estimateGas92(data.rbob.price),
     fo05      |-> estimateFuelOil05(data.brent.price),
     fo380     |-> estimateFuelOil380(data.brent.price),
     spreads   |-> Spreads(data)]


-----------------------------------------------------------------------------
(* The handler of GET /api/energy-data *)

\* the window taken in seconds, the instants being milliseconds
IsFresh_Seconds(cached, now, last) ==
    cached # Null /\ (now - last) < CACHE_DURATION \div 1000

IsFresh_Inclusive(cached, now, last) ==
    cached # Null /\ (now - last) <= CACHE_DURATION

\* line 21: cachedData && (now - lastFetch) < CACHE_DURATION
IsFresh(cached, now, last) ==
    cached # Null /\ (now - last) < CACHE_DURATION

Json200(body) == [status |-> 200, body |-> body]
Error500 == [status |-> 500, body |-> [error |-> "Failed to fetch energy data"]]

AllMock(snap) == \A k \in KeySet : snap[k] = getMockData(k)

\* A handler that reports the failure of every symbol as an error
AfterAwait_FailWhenAllMock(batch, cached) ==
    IF batch.threw \/ AllMock(batch.value)
    THEN [store |-> FALSE, value |-> cached, res |-> Error500]
    ELSE [store |-> TRUE, value |-> batch.value, res |-> Json200(batch.value)]

\* A handler that answers from the cache variable whenever it is set
AfterAwait_AnswerFromCache(batch, cached) ==
    IF batch.threw
    THEN [store |-> FALSE, value |-> cached,
          res |-> IF cached # Null THEN Json200(cached) ELSE Error500]
    ELSE [store |-> TRUE, value |-> batch.value,
          res |-> IF cached # Null THEN Json200(cached)
                  ELSE Json200(batch.value)]

\* A handler that keeps the cached quote of a key whose fetch fell back to
\* the mock quote
AfterAwait_KeepCachedQuote(batch, cached) ==
    IF batch.threw
    THEN [store |-> FALSE, value |-> cached,
          res |-> IF cached # Null THEN Json200(cached) ELSE Error500]
    ELSE LET merged == [f \in DOMAIN batch.value |->
                          IF f \in KeySet /\ cached # Null
                             /\ batch.value[f] = getMockData(f)
                          THEN cached[f] ELSE batch.value[f]]
         IN [store |-> TRUE, value |-> merged, res |-> Json200(merged)]

\* A handler that empties the cache when every symbol fell back to its
\* mock quote
AfterAwait_ClearOnAllMock(batch, cached) ==
    IF batch.threw
    THEN [store |-> FALSE, value |-> cached,
          res |-> IF cached # Null THEN Json200(cached) ELSE Error500]
    ELSE IF AllMock(batch.value)
    THEN [store |-> TRUE, value |-> Null, res |-> Json200(batch.value)]
    ELSE [store |-> TRUE, value |-> batch.value, res |-> Json200(batch.value)]

\* Lines 26-42, from the point where the awaited fetchEnergyData settles:
\* on a value, store it (with now) and answer it; on an error, answer the
\* cached Snapshot if there is one and the 500 body otherwise.
AfterAwait(batch, cached) ==
    IF ~batch.threw
    THEN [store |-> TRUE, value |-> batch.value, res |-> Json200(batch.value)]
    ELSE [store |-> FALSE, value |-> cached,
          res |-> IF cached # Null THEN Json200(cached) ELSE Error500]

NoData == [k \in {} |-> Null]

\* A handler's place and locals: now and data are the code's; calls (the
\* upstream calls it has issued), why (what made the request a miss) and
\* failed (the keys whose call failed) record what happened to it
IdleReq ==
    [pc |-> "idle", now |-> 0, idx |-> 0, calls |-> 0, data |-> NoData,
     why |-> "none", failed |-> {}]

\* A handler that has answered keeps nothing
DoneReq == [IdleReq EXCEPT !.pc = "done"]

\* Nothing written.  A written response goes with the request it answers,
\* how it came about (kind, why, failed) and how the handler's last
\* upstream call ended
NoneSent == [r |-> 0, kind |-> "none", res |-> Null, why |-> "none",
             failed |-> {}, ended |-> "none"]

\* No calculator applied on its own
NoCalc == [op |-> "none"]

\* The process starts at some instant after the epoch
StartTime == 2 * CACHE_DURATION

\* Time advances by a short step at any moment, and by a long one (the
\* freshness window, or all of it but a short step) only while no upstream
\* call is pending: axios ends every call within TIMEOUT_MS
ShortTick == TIMEOUT_MS
LongTick == CACHE_DURATION - TIMEOUT_MS
Ticks == {ShortTick, LongTick, CACHE_DURATION}

MayPass(d) ==
    \/ d = ShortTick
    \/ d > ShortTick /\ \A r \in Req : req[r].pc # "fetching"

Init ==
    /\ cachedData = Null
    /\ lastFetch = 0
    /\ clock = StartTime
    /\ ticks = 0
    /\ req = [r \in Req |-> IdleReq]
    /\ sent = NoneSent
    /\ everStored = FALSE
    /\ calc = NoCalc

\* Time passes
Tick(d) ==
    /\ ticks < MaxTicks
    /\ MayPass(d)
    /\ ticks' = ticks + 1
    /\ clock' = clock + d
    /\ sent' = NoneSent
    /\ UNCHANGED <<cachedData, lastFetch, req, everStored, calc>>

\* Requests are numbered in their order of arrival
MayArrive(r) ==
    /\ req[r].pc = "idle"
    /\ r > 1 => req[r - 1].pc # "idle"

\* Lines 20-23: the cached Snapshot is recent and is the answer
RequestHit(r) ==
    /\ MayArrive(r)
    /\ IsFresh(cachedData, clock, lastFetch)
    /\ req' = [req EXCEPT ![r] = DoneReq]
    /\ sent' = [r |-> r, kind |-> "hit", res |-> Json200(cachedData),
                why |-> "none", failed |-> {}, ended |-> "none"]
    /\ UNCHANGED <<cachedData, lastFetch, clock, ticks, everStored, calc>>

\* Lines 20-26 and 45-57: not recent; fetchEnergyData runs up to its first
\* await, the axios call for the first symbol
RequestMiss(r) ==
    /\ MayArrive(r)
    /\ ~IsFresh(cachedData, clock, lastFetch)
    /\ req' = [req EXCEPT ![r] =
                 [@ EXCEPT !.pc = "fetching", !.now = clock, !.idx = 1,
                           !.calls = 1,
                           !.why = IF cachedData = Null THEN "empty"
                                   ELSE "expired"]]
    /\ sent' = NoneSent
    /\ UNCHANGED <<cachedData, lastFetch, clock, ticks, everStored, calc>>

Failed(resp) == fetchYahooPrice(resp).threw

FailedAfter(r, key, resp) ==
    IF Failed(resp) THEN req[r].failed \cup {key} ELSE req[r].failed

\* How a call ended
Ended(resp) ==
    IF resp.kind # "body" THEN resp.kind
    ELSE IF Failed(resp) THEN "invalid" ELSE "ok"

\* The loop retries a symbol whose call failed
AfterTurn_Retry(idx, failed) == IF failed THEN idx ELSE idx + 1

\* Lines 55-64: whatever the turn ended with, the loop goes on to the next
\* entry of symbols
AfterTurn(idx, failed) == idx + 1

\* Lines 33-42 reached from inside the loop: the turn let an error out
Rejected(r, key, resp) ==
    LET h == AfterAwait([threw |-> TRUE, value |-> Null], cachedData)
    IN /\ req' = [req EXCEPT ![r] = DoneReq]
       /\ sent' = [r |-> r, kind |-> "refresh", res |-> h.res,
                   why |-> req[r].why, failed |-> req[r].failed \cup {key},
                   ended |-> Ended(resp)]
       /\ UNCHANGED <<cachedData, lastFetch, everStored>>

\* Lines 55-64: the awaited call of a symbol other than the last settles,
\* data[key] is set and the next symbol's call is issued
SymbolDone(r, resp) ==
    LET key == Keys[req[r].idx]
        one == FetchOne(key, resp)
    IN /\ req[r].pc = "fetching"
       /\ req[r].idx < Len(Keys)
       /\ resp \in Responses(key)
       /\ IF one.threw
          THEN Rejected(r, key, resp)
          ELSE /\ req' = [req EXCEPT ![r] =
                            [@ EXCEPT !.idx = AfterTurn(@, Failed(resp)),
                                      !.calls = @ + 1,
                                      !.data = @ @@ (key :> one.value),
                                      !.failed = FailedAfter(r, key, resp)]]
               /\ sent' = NoneSent
               /\ UNCHANGED <<cachedData, lastFetch, everStored>>
       /\ UNCHANGED <<clock, ticks, calc>>

\* Lines 55-100 and 26-31: the last symbol's call settles, the Snapshot is
\* built and returned, and the handler stores and answers it, all before
\* any other callback runs
LastSymbolDone(r, resp) ==
    LET key == Keys[req[r].idx]
        one == FetchOne(key, resp)
        data == req[r].data @@ (key :> one.value)
        batch == IF one.threw THEN [threw |-> TRUE, value |-> Null]
                 ELSE [threw |-> FALSE, value |-> BuildSnapshot(data, clock)]
    IN /\ req[r].pc = "fetching"
       /\ req[r].idx = Len(Keys)
       /\ resp \in Responses(key)
       /\ \E h \in {AfterAwait(batch, cachedData)} :
            /\ req' = [req EXCEPT ![r] = DoneReq]
            /\ sent' = [r |-> r, kind |-> "refresh", res |-> h.res,
                        why |-> req[r].why,
                        failed |-> FailedAfter(r, key, resp),
                        ended |-> Ended(resp)]
            /\ IF h.store
               THEN /\ cachedData' = h.value
                    /\ lastFetch' = req[r].now
                    /\ everStored' = TRUE
               ELSE UNCHANGED <<cachedData, lastFetch, everStored>>
       /\ UNCHANGED <<clock, ticks, calc>>

Next ==
    \/ \E d \in Ticks : Tick(d)
    \/ \E r \in Req : RequestHit(r)
    \/ \E r \in Req : RequestMiss(r)
    \/ \E r \in Req : \E resp \in Responses(Keys[1]) \cup Responses(Keys[2]) :
          SymbolDone(r, resp)
    \/ \E r \in Req : \E resp \in Responses(Keys[3]) : LastSymbolDone(r, resp)

Spec == Init /\ [][Next]_vars

\* The pending upstream call of request r ends
Settles(r) ==
    \/ \E resp \in Responses(Keys[1]) \cup Responses(Keys[2]) :
          SymbolDone(r, resp)
    \/ \E resp \in Responses(Keys[3]) : LastSymbolDone(r, resp)

\* Every pending upstream call ends: with an answer, an error or the timeout
FairSpec == Spec /\ \A r \in Req : WF_vars(Settles(r))

-----------------------------------------------------------------------------
(* The calculators on their own: each is a pure function of the prices it  *)
(* is given, whatever the upstream has produced them from.                 *)

\* Prices in cents: none, zero, a few cents, $/gallon prices, prices at and
\* on either side of the $10 threshold of calculateCrack, $/barrel prices
Prices == {Undefined, 0, 2, 228, 255, 999, 1000, 1200, 6650, 7180}

\* A quote mapping with these prices, as the loop of fetchEnergyData leaves
\* it (the calculators read only the prices)
DataOf(wti, brent, rbob) ==
    [wti   |-> Quote(wti, 0, 0, wti),
     brent |-> Quote(brent, 0, 0, brent),
     rbob  |-> Quote(rbob, 0, 0, rbob)]

Estimators == {"estimateFuelOil05", "estimateFuelOil380", "estimateGas92"}

Estimate(f, benchmark) ==
    CASE f = "estimateFuelOil05"  -> estimateFuelOil05(benchmark)
      [] f = "estimateFuelOil380" -> estimateFuelOil380(benchmark)
      [] f = "estimateGas92"      -> estimateGas92(benchmark)

CalcInit ==
    /\ cachedData = Null
    /\ lastFetch = 0
    /\ clock = StartTime
    /\ ticks = 0
    /\ req = [r \in Req |-> IdleReq]
    /\ sent = NoneSent
    /\ everStored = FALSE
    /\ \E a \in Prices, b \in Prices, c \in Prices :
          calc = [op |-> "input", args |-> <<a, b, c>>, out |-> Null]

Applied(op, out) ==
    /\ calc.op = "input"
    /\ calc' = [calc EXCEPT !.op = op, !.out = out]
    /\ UNCHANGED <<cachedData, lastFetch, clock, ticks, req, sent, everStored>>

\* calculateCrack(crudePrice, productPrice)
ApplyCrack == Applied("calculateCrack", calculateCrack(calc.args[1], calc.args[2]))

\* calculateCrack321(wti, rbob, ho)
ApplyCrack321 ==
    Applied("calculateCrack321",
            calculateCrack321(calc.args[1], calc.args[2], calc.args[3]))

\* estimateFuelOil05(brentPrice), estimateFuelOil380(brentPrice),
\* estimateGas92(rbobPrice)
ApplyEstimate(f) == Applied(f, Estimate(f, calc.args[1]))

\* the spreads of fetchEnergyData over data with prices wti, brent, rbob
ApplySpreads ==
    Applied("spreads", Spreads(DataOf(calc.args[1], calc.args[2], calc.args[3])))

CalcNext ==
    \/ ApplyCrack
    \/ ApplyCrack321
    \/ \E f \in Estimators : ApplyEstimate(f)
    \/ ApplySpreads

CalcSpec == CalcInit /\ [][CalcNext]_vars

-----------------------------------------------------------------------------
(* What a step does, for the properties below *)

SnapshotFields ==
    {"timestamp", "wti", "brent", "rbob", "gas92", "fo05", "fo380", "spreads"}

IsSnapshot(x) == DOMAIN x = SnapshotFields

\* request r arrives in this step
Arrives(r) == req[r].pc = "idle" /\ req'[r].pc # "idle"

\* the refresh of request r ends in this step
Completes(r) == req[r].pc = "fetching" /\ req'[r].pc = "done"

\* request q issues an upstream call in this step
IssuesCall(q) == req'[q].pc = "fetching" /\ req'[q].idx # req[q].idx

\* a response to request r is written in this step
Answers(r) == sent'.kind # "none" /\ sent'.r = r /\ req[r].pc # "done"

-----------------------------------------------------------------------------
(* C1: a request that arrives while a Snapshot is cached and less than     *)
(* CACHE_DURATION after lastFetch is answered with exactly the cached      *)
(* Snapshot, issues no upstream call, and leaves cachedData and lastFetch  *)
(* as they were.                                                           *)
C1_CacheHit ==
    [][\A r \in Req :
         (Arrives(r) /\ cachedData # Null
                     /\ clock - lastFetch < CACHE_DURATION)
         => /\ req'[r].pc = "done"
            /\ sent'.r = r
            /\ sent'.res = Json200(cachedData)
            /\ \A q \in Req : ~IssuesCall(q)
            /\ cachedData' = cachedData
            /\ lastFetch' = lastFetch]_vars

\* a hit late in the window: the Snapshot is LongTick old or older
C1_Witness ==
    /\ sent.kind = "hit"
    /\ sent.res = Json200(cachedData)
    /\ clock - lastFetch >= LongTick
    /\ clock - lastFetch < CACHE_DURATION

(* C2: a request that arrives when the cache is empty, or CACHE_DURATION   *)
(* or more after lastFetch, starts one refresh: one upstream call per      *)
(* symbol, one after the other; when the last ends, the Snapshot built     *)
(* from the handler's data at that instant is stored (with the request's   *)
(* arrival instant) and is the response.                                   *)
C2_CacheExpiry ==
    [][\A r \in Req :
         /\ (Arrives(r) /\ (cachedData = Null
                            \/ clock - lastFetch >= CACHE_DURATION))
            => /\ req'[r].pc = "fetching"
               /\ req'[r].idx = 1
               /\ sent'.kind = "none"
         /\ (req[r].pc = "fetching" /\ req'[r] # req[r])
            => \/ /\ req'[r].pc = "fetching"
                  /\ req[r].idx < Len(Keys)
                  /\ req'[r].idx = req[r].idx + 1
                  /\ sent'.kind = "none"
               \/ /\ Completes(r)
                  /\ req[r].idx = Len(Keys)
                  /\ sent'.r = r
                  /\ sent'.res = Json200(cachedData')
                  /\ IsSnapshot(cachedData')
                  /\ cachedData'.timestamp = clock
                  /\ \A k \in DOMAIN req[r].data :
                        cachedData'[k] = req[r].data[k]
                  /\ cachedData' =
                       BuildSnapshot([k \in KeySet |-> cachedData'[k]], clock)
                  /\ lastFetch' = req[r].now]_vars

\* the refresh of a request that arrived exactly CACHE_DURATION after the
\* arrival of the one whose Snapshot was cached has just been answered
C2_Witness ==
    /\ sent.kind = "refresh"
    /\ sent.why = "expired"
    /\ sent.res = Json200(cachedData)
    /\ lastFetch = StartTime + CACHE_DURATION

(* C3: the 500 response is written only while no Snapshot has ever been    *)
(* stored; every response written once a Snapshot has been stored is a 200 *)
(* with a Snapshot as its body.                                            *)
C3_ErrorOnlyWhenNeverStored ==
    sent.kind # "none" =>
        /\ sent.res.status = 500 => ~everStored
        /\ everStored => sent.res.status = 200 /\ IsSnapshot(sent.res.body)

\* a refresh over a stale Snapshot in which every symbol failed is answered
\* 200
C3_Witness ==
    /\ sent.kind = "refresh"
    /\ sent.why = "expired"
    /\ sent.failed = KeySet
    /\ sent.res.status = 200
    /\ IsSnapshot(sent.res.body)

(* C4: when the refresh of a request that found a stale Snapshot ends and  *)
(* every one of its per-symbol fetches has failed, the response is the     *)
(* Snapshot cached before, and the cache still holds that Snapshot.        *)
C4_AllFailKeepsLastGood ==
    [][\A r \in Req :
         (Completes(r) /\ req[r].why = "expired" /\ sent'.failed = KeySet)
         => /\ sent'.res = Json200(cachedData)
            /\ cachedData' = cachedData]_vars

LiveQuotes(key) == {fetchYahooPrice(b).value : b \in LiveBodies(key)}

(* C6: whatever subset of the symbols fails, the refresh ends with a 200   *)
(* whose Snapshot has a quote for every key: the Fallback quote for each   *)
(* key whose fetch failed, the fetched quote for each other key (so no     *)
(* key's quote depends on another key's failure); and a turn of the loop   *)
(* changes no quote already set.                                           *)
C6_FailureNeverAbortsBatch ==
    [][\A r \in Req :
         /\ Completes(r)
            => /\ sent'.res.status = 200
               /\ IsSnapshot(sent'.res.body)
               /\ \A k \in KeySet :
                     IF k \in sent'.failed
                     THEN sent'.res.body[k] = getMockData(k)
                     ELSE sent'.res.body[k] \in LiveQuotes(k)
         /\ (req[r].pc = "fetching" /\ req'[r].pc = "fetching")
            => /\ \A k \in DOMAIN req[r].data :
                     req'[r].data[k] = req[r].data[k]
               /\ \A k \in DOMAIN req'[r].data :
                     IF k \in req'[r].failed
                     THEN req'[r].data[k] = getMockData(k)
                     ELSE req'[r].data[k] \in LiveQuotes(k)]_vars

\* a refresh in which the first and the last symbol failed and the middle
\* one did not has been answered with a mixed Snapshot
C6_Witness ==
    /\ sent.kind = "refresh"
    /\ sent.failed = {"wti", "rbob"}
    /\ sent.res.status = 200
    /\ sent.res.body.wti = getMockData("wti")
    /\ sent.res.body.rbob = getMockData("rbob")
    /\ sent.res.body.brent \in LiveQuotes("brent")

InFlight == {r \in Req : req[r].pc = "fetching"}

(* C7 as claimed: of the requests that arrive while the cache is empty or  *)
(* expired, at most one has a fetch batch under way: there are never two   *)
(* handlers with an upstream call pending.                                 *)
C7_SingleFlight == Cardinality(InFlight) <= 1

(* C7 as amended: concurrent misses are not de-duplicated.  A request that *)
(* arrives while the cache is empty or expired starts its own batch even   *)
(* when another batch is under way; a handler issues its calls one per     *)
(* symbol in order; and its response is the Snapshot built from the quotes *)
(* of its own batch.                                                       *)
C7_OwnBatchPerMiss ==
    [][\A r \in Req :
         /\ (Arrives(r) /\ InFlight # {}
                        /\ (cachedData = Null
                            \/ clock - lastFetch >= CACHE_DURATION))
            => /\ req'[r].pc = "fetching"
               /\ IssuesCall(r)
               /\ req'[r].idx = 1
         /\ IssuesCall(r) => req'[r].idx = req[r].idx + 1
         /\ Completes(r)
            => /\ sent'.r = r
               /\ sent'.res.status = 200
               /\ IsSnapshot(sent'.res.body)
               /\ \A k \in DOMAIN req[r].data :
                     sent'.res.body[k] = req[r].data[k]]_vars

\* one of two batches started on an empty cache has been answered while the
\* other is still under way
C7_Witness ==
    /\ sent.kind = "refresh"
    /\ sent.why = "empty"
    /\ \E q \in InFlight : req[q].why = "empty"

\* A complete Snapshot: every field present, the derived quotes and the
\* spreads those of its own primary quotes
Complete(s) ==
    /\ IsSnapshot(s)
    /\ s = BuildSnapshot([k \in KeySet |-> s[k]], s.timestamp)

\* A Snapshot as fetchEnergyData builds it: complete, and every primary
\* quote a fetched or a fallback quote
WellBuilt(s) ==
    /\ Complete(s)
    /\ \A k \in KeySet : s[k] \in LiveQuotes(k) \cup {getMockData(k)}

(* C8: the cached value, absent at the start, changes only in the step     *)
(* that ends a refresh, and then to a complete Snapshot built from that    *)
(* one handler's quotes at that instant; and every body written is the     *)
(* whole cached Snapshot as it stands when the step ends (so a complete    *)
(* one).                                                                   *)
C8_AtomicCacheWrites ==
    [][/\ cachedData' # cachedData => Complete(cachedData')
       /\ sent'.kind # "none" =>
             /\ sent'.res.status = 200
             /\ cachedData' # Null
             /\ sent'.res.body = cachedData'
       /\ cachedData' # cachedData =>
             \E r \in Req :
                /\ Completes(r)
                /\ cachedData'.timestamp = clock
                /\ \A k \in DOMAIN req[r].data :
                      cachedData'[k] = req[r].data[k]
                /\ IF "rbob" \in sent'.failed
                   THEN cachedData'.rbob = getMockData("rbob")
                   ELSE cachedData'.rbob \in LiveQuotes("rbob")]_vars

\* a refresh has just replaced the cached Snapshot while another handler
\* holds a partly filled data object with a different quote
C8_Witness ==
    /\ sent.kind = "refresh"
    /\ WellBuilt(cachedData)
    /\ \E q \in InFlight :
          /\ req[q].idx = 2
          /\ req[q].data.wti # cachedData.wti

(* C9: under FairSpec every handler with a call pending ends; a handler    *)
(* writes its response in the step in which it ends and no other, and once *)
(* ended stays ended; and a refresh whose last call timed out is answered  *)
(* 200 with the Fallback quote for that symbol.                            *)
C9_BoundedResponse ==
    /\ \A r \in Req : (req[r].pc = "fetching") ~> (req[r].pc = "done")
    /\ [][\A r \in Req :
            /\ Arrives(r) => req'[r].pc \in {"fetching", "done"}
            /\ req[r].pc = "done" => req'[r].pc = "done"
            /\ (sent'.kind # "none" /\ sent'.r = r)
               <=> (req[r].pc # "done" /\ req'[r].pc = "done")
            /\ (Completes(r) /\ sent'.ended = "timeout")
               => /\ sent'.res.status = 200
                  /\ sent'.res.body.rbob = getMockData("rbob")]_vars

\* a refresh whose last call timed out has been answered 200 with the
\* Fallback quote for rbob
C9_Witness ==
    /\ sent.kind = "refresh"
    /\ sent.ended = "timeout"
    /\ sent.res.status = 200
    /\ sent.res.body.rbob = getMockData("rbob")

(* C10: every refresh in which the rbob fetch failed yields a Snapshot     *)
(* whose rbob quote is the one fixed Fallback quote (2.28, 0.04, 1.79,     *)
(* 2.24), whatever was cached before and whatever the other symbols did.   *)
C10_FallbackIdempotent ==
    (sent.kind = "refresh" /\ "rbob" \in sent.failed)
    => /\ sent.res.status = 200
       /\ sent.res.body.rbob = Quote(228, 4, 179, 224)
       /\ cachedData.rbob = Quote(228, 4, 179, 224)

\* a refresh over a Snapshot stored earlier, in which rbob failed and wti
\* did not
C10_Witness ==
    /\ sent.kind = "refresh"
    /\ sent.why = "expired"
    /\ "rbob" \in sent.failed
    /\ "wti" \notin sent.failed
    /\ sent.res.body.rbob = Quote(228, 4, 179, 224)

\* The quote prices each named spread is computed from
SpreadInputs ==
    [brent_wti   |-> {"brent", "wti"},
     wti_m1m2    |-> {"wti"},
     wti_m1m6    |-> {"wti"},
     rbob_m1m2   |-> {"rbob"},
     crack_92    |-> {"brent", "rbob"},
     crack_fo05  |-> {"brent"},
     crack_fo380 |-> {"brent"}]

\* the price given for a key to the calculator applied on its own
ArgOf(key) ==
    CASE key = "wti" -> calc.args[1]
      [] key = "brent" -> calc.args[2]
      [] key = "rbob" -> calc.args[3]

(* C11: in the mapping the Spread Calculator returns, every named spread   *)
(* one of whose input prices is absent is 0; in particular brent_wti is 0  *)
(* when the brent or the wti price is absent.                              *)
C11_AbsentInputYieldsZero ==
    calc.op = "spreads" =>
        /\ DOMAIN calc.out = DOMAIN SpreadInputs
        /\ \A name \in DOMAIN SpreadInputs :
              (\E k \in SpreadInputs[name] : ArgOf(k) = Undefined)
              => calc.out[name] = 0

\* a price that is there: a number other than 0
Present(p) == IsNum(p) /\ p # 0

(* C12: for present crude price C and product price P (in cents),          *)
(* calculateCrack returns P * 42 - C when P is below $10 and P - C when P  *)
(* is $10 or more (in thousandths of a cent); crude 66.50 and product 2.28 *)
(* give 29.26.                                                             *)
C12_CrackNormalization ==
    (calc.op = "calculateCrack" /\ Present(calc.args[1])
                                /\ Present(calc.args[2]))
    => LET C == calc.args[1]
           P == calc.args[2]
       IN /\ P < 1000 => calc.out = 42000 * P - 1000 * C
          /\ P >= 1000 => calc.out = 1000 * P - 1000 * C
          /\ (C = 6650 /\ P = 228) => calc.out = 2926000

\* the crack of a product at exactly $10 against crude at 66.50 is taken
\* without conversion
C12_Witness ==
    /\ calc.op = "calculateCrack"
    /\ calc.args[1] = 6650
    /\ calc.args[2] = 1000
    /\ calc.out = (1000 - 6650) * 1000

\* a product price per barrel by the rule of calculateCrack, in cents
Barrel(p) == IF p < 1000 THEN p * 42 ELSE p

(* C13: for present WTI, RBOB and heating-oil prices the 3-2-1 crack is    *)
(* ((2 * RBOB_barrel + HO_barrel) / 3) - WTI, where each product price is  *)
(* multiplied by 42 only when it is below $10 and taken as it is when it   *)
(* is $10 or more (the result in thirds of a cent).                        *)
C13_Crack321SameRule ==
    (calc.op = "calculateCrack321" /\ Present(calc.args[1])
        /\ Present(calc.args[2]) /\ Present(calc.args[3]))
    => calc.out = (2 * Barrel(calc.args[2]) + Barrel(calc.args[3]))
                  - 3 * calc.args[1]

(* C14: whatever benchmark price an estimator is given, present or absent, *)
(* it returns a Quote (it never fails) whose price is a number other       *)
(* than 0.                                                                 *)
C14_EstimateNeverZero ==
    calc.op \in Estimators =>
        /\ DOMAIN calc.out = DOMAIN Quote(0, 0, 0, 0)
        /\ IsNum(calc.out.price)
        /\ calc.out.price # 0

Abs(x) == IF x < 0 THEN 0 - x ELSE x

Derived == {"gas92", "fo05", "fo380"}

\* How far changePercent is from (price - previousClose) / previousClose
\* * 100, in hundredths of a percent times previousClose
PercentGap(q) ==
    Abs(q.changePercent * q.previousClose
        - (q.price - q.previousClose) * 10000)

\* changePercent is (price - previousClose) / previousClose * 100 to within
\* 0.01 (the value JavaScript gives, NaN, when the price is not a number)
PercentHolds(q) ==
    IF IsNum(q.price)
    THEN IsNum(q.changePercent) /\ PercentGap(q) <= Abs(q.previousClose)
    ELSE q.changePercent = NaN

HasPreviousClose(q) == IsNum(q.previousClose) /\ q.previousClose # 0

(* C15 as claimed: every Quote of the cached Snapshot, primary or derived, *)
(* that has a nonzero previousClose has changePercent = (price -           *)
(* previousClose) / previousClose * 100, to within 0.01.                   *)
C15_PercentOfEveryQuote ==
    cachedData # Null =>
        \A f \in KeySet \cup Derived :
            HasPreviousClose(cachedData[f]) => PercentHolds(cachedData[f])

\* the fixed deltas of an estimator's quote
FixedDelta(q, change, changePercent) ==
    /\ q.change = change
    /\ q.changePercent = changePercent
    /\ q.previousClose = q.price - change

(* C15 as amended: every fetched Quote of the cached Snapshot with a       *)
(* nonzero previousClose has change = price - previousClose and            *)
(* changePercent = change / previousClose * 100 as computed (to the last   *)
(* digit kept; NaN when the price is not a number); every Fallback quote   *)
(* has it rounded to two decimals; the derived quotes carry the fixed      *)
(* change and changePercent 0.50 / 0.67, -0.30 / -0.48 and 0.03 / 1.35     *)
(* with previousClose = price - change, whatever the ratio is.             *)
C15_PercentOfFetchedAndFallback ==
    cachedData # Null =>
        /\ \A k \in KeySet :
              LET q == cachedData[k]
              IN HasPreviousClose(q) =>
                    IF q = getMockData(k)
                    THEN 2 * PercentGap(q) <= Abs(q.previousClose)
                    ELSE /\ q.change = JsSub(q.price, q.previousClose)
                         /\ IF IsNum(q.price)
                            THEN /\ IsNum(q.changePercent)
                                 /\ PercentGap(q) < Abs(q.previousClose)
                                 /\ q.changePercent * q.previousClose
                                       <= q.change * 10000
                            ELSE q.changePercent = NaN
        /\ FixedDelta(cachedData.fo05, 50, 67)
        /\ FixedDelta(cachedData.fo380, 0 - 30, 0 - 48)
        /\ FixedDelta(cachedData.gas92, 3, 135)

\* a Snapshot with a Fallback quote, fetched quotes, and a derived quote
\* whose fixed changePercent is not the ratio of its own prices
C15_Witness ==
    /\ cachedData # Null
    /\ cachedData.wti = getMockData("wti")
    /\ cachedData.rbob \in LiveQuotes("rbob")
    /\ IsNum(cachedData.rbob.price)
    /\ cachedData.gas92.changePercent = 135
    /\ ~PercentHolds(cachedData.gas92)

(* C16: once a Snapshot is cached the cache is never empty again; the      *)
(* cached value changes only in the step that ends a refresh, from absent  *)
(* or from a Snapshot to the whole Snapshot that refresh returned, which   *)
(* was built no earlier than the one it replaces.                          *)
C16_NeverEmptyAgain ==
    [][/\ cachedData # Null => cachedData' # Null
       /\ everStored' => cachedData' # Null
       /\ cachedData' # cachedData =>
             /\ IsSnapshot(cachedData')
             /\ \E r \in Req : Completes(r) /\ sent'.r = r
             /\ sent'.res = Json200(cachedData')
             /\ cachedData # Null =>
                   cachedData'.timestamp >= cachedData.timestamp]_vars

\* a refresh in which every symbol failed has replaced a Snapshot stored
\* earlier by a later one
C16_Witness ==
    /\ sent.kind = "refresh"
    /\ sent.why = "expired"
    /\ sent.failed = KeySet
    /\ IsSnapshot(cachedData)
    /\ cachedData.timestamp > StartTime

\* the first n keys of symbols
FirstKeys(n) == {Keys[i] : i \in 1..n}

C18_LastFetchIsCreation ==
    cachedData # Null => lastFetch = cachedData.timestamp

(* C19: lastFetch never decreases, and the cached Snapshot is never        *)
(* replaced by the Snapshot of a request that arrived earlier than the     *)
(* request whose Snapshot is cached (lastFetch is the arrival instant of   *)
(* the request whose Snapshot is cached).                                  *)
C19_NoOlderRefreshWins ==
    [][/\ lastFetch' >= lastFetch
       /\ \A r \in Req :
             (Completes(r) /\ cachedData # Null /\ cachedData' # cachedData)
             => req[r].now >= lastFetch]_vars

(* C20: every primary quote of the cached Snapshot has a numeric price: a  *)
(* response that yields no usable latest price counts as a failed fetch,   *)
(* so that the key has its Fallback quote.                                 *)
C20_PrimaryPriceDefined ==
    cachedData # Null =>
        \A k \in KeySet :
            \/ cachedData[k] = getMockData(k)
            \/ /\ cachedData[k] \in LiveQuotes(k)
               /\ IsNum(cachedData[k].price)

=============================================================================
